---- MODULE Spec2Model ----
(***************************************************************************)
(* Model of minet's CrawlerQueue (src/minet/crawl/new_queue.py): a sqlite  *)
(* backed crawl queue with per-group throttling and parallelism, used by   *)
(* several producer and consumer threads.                                  *)
(*                                                                         *)
(* Time is counted in units of TIMER_EPSILON.  The three sqlite tables are *)
(* sets of records (one record per row); in-memory attributes of the queue *)
(* object keep their names.  Every thread is at a position `pc` inside one *)
(* of the queue's methods, or idle.                                        *)
(***************************************************************************)
EXTENDS Integers, Sequences, FiniteSets, TLC

\* ------------------------------------------------------------------ bounds
NumThreads == 2      \* threads sharing the queue
MaxJobs == 2         \* rows ever inserted
MaxBatch == 2        \* jobs per put_many call
MaxPriority == 1     \* priorities are 0..MaxPriority
MaxTime == 3         \* last instant of the clock
MaxTaskDone == 2     \* successful task_done calls
ThrottleDelay == 2   \* the non-zero throttle setting tried
CleanupInterval == 2 \* the cleanup_interval setting tried
MaxResume == 1       \* times the store is reopened with resume=True
MaxCounter == 3      \* last value of the counter when put_many is seen step by step

TIMER_EPSILON == 1

Threads == 1..NumThreads
Groups == {"x"}
NULL == "NULL"
NoThread == 0
\* Python's None where the other values are numbers: self.counter after a
\* resume on an empty table, need_to_wait_for_at_least outside a wait
None == 0 - 1
Unbounded == MaxJobs + MaxTaskDone + 1

VARIABLES
    \* constructor parameters
    is_lifo, group_parallelism, throttle, cleanup_interval,
    \* sqlite tables
    queue_rows, throttle_rows, parallelism_rows,
    \* in-memory state of the queue object
    tasks, counter, current_task_done_count,
    put_lock, task_lock,
    \* the clock read by now()
    clock,
    \* threads: position and the locals of get_nowait
    pc, need_to_wait_for_at_least, wait_deadline,
    \* the exception the last step raised to its caller, if it raised one
    raised,
    \* the store and the object: connections closed by close(), number of times
    \* the path was reopened with resume=True (resuming is resumes > 0)
    closed, resumes,
    \* put_many seen statement by statement: the jobs argument and the local
    \* rows of each thread inside put_many, and the value put_many last returned
    \* (a set of at most one number)
    put_jobs, put_rows, returned,
    \* history: the row indexes that had status=1 when the store was last reopened
    recovered,
    \* history: jobs as they were put, row indexes handed out by get_nowait and
    \* how many times get_nowait returned a job, whether put_many ran after
    \* get_nowait had returned a job, row indexes whose job was reported by a successful
    \* task_done, number of successful task_done calls, and per group the time
    \* (a set of at most one instant) of the last task_done commit that throttled
    \* the group since the last clear
    put_log, delivered, handouts, put_after_get,
    reported, task_done_calls, last_done,
    \* the crawl target last constructed, if one was: the arguments of the call
    \* and its outcome (a set of at most one record)
    crawl_target

vars == <<is_lifo, group_parallelism, throttle, cleanup_interval,
          queue_rows, throttle_rows, parallelism_rows,
          tasks, counter, current_task_done_count, put_lock, task_lock,
          clock, pc, need_to_wait_for_at_least, wait_deadline, raised,
          closed, resumes, put_jobs, put_rows, returned, recovered,
          put_log, delivered, handouts, put_after_get,
          reported, task_done_calls, last_done, crawl_target>>

params == <<is_lifo, group_parallelism, throttle, cleanup_interval>>
tables == <<queue_rows, throttle_rows, parallelism_rows>>
locks == <<put_lock, task_lock>>
instance == <<closed, resumes, recovered>>
put_locals == <<put_jobs, put_rows, returned>>
waits == <<need_to_wait_for_at_least, wait_deadline>>
history == <<put_log, delivered, handouts, put_after_get,
             reported, task_done_calls, last_done>>

\* ----------------------------------------------------------------- helpers
Max(a, b) == IF a >= b THEN a ELSE b

\* dict assignment d[k] = v
DictSet(d, k, v) == [x \in DOMAIN d \cup {k} |-> IF x = k THEN v ELSE d[x]]

\* CrawlJob.__hash__ / __eq__: jobs are hashable by id
JobKey(job) == job.id

now == clock

\* A thread that is not inside a call
AtRest(t) == pc[t] = "idle"

\* The step returns or goes on without raising / raises e in thread t
NoRaise == raised' = NULL
Raise(t, e) == raised' = e

Min(S) == CHOOSE m \in S : \A o \in S : m <= o

\* self.resuming
resuming == resumes > 0

\* A payload pickle cannot serialise (a lambda, an open file)
Unpicklable == "lambda"

\* pickle.dumps / pickle.loads: the byte string holding d (a set of one) and back
pickle_dumps(d) == {d}
pickle_loads(b) == CHOOSE d \in b : TRUE

\* ------------------------------------------------------------ SQL statements
\* Mutant: the WHERE clause without its status test
JobFilterAnyStatus(r, ts, cap) ==
    /\ \A t \in throttle_rows : t.group = r.group => t.timestamp <= ts
    /\ \A p \in parallelism_rows : p.group = r.group => p.count < cap

\* Mutant: inner joins: a row is selected only with a row of its group in the
\* throttle and parallelism tables
JobFilterInnerJoin(r, ts, cap) ==
    /\ r.status = 0
    /\ \E t \in throttle_rows : t.group = r.group /\ t.timestamp <= ts
    /\ \E p \in parallelism_rows : p.group = r.group /\ p.count < cap

\* The WHERE clause of SQL_GET_JOB over the two LEFT JOINs: a NULL group joins
\* with no row of either table.
JobFilter(r, ts, cap) ==
    /\ r.status = 0
    /\ \A t \in throttle_rows : t.group = r.group => t.timestamp <= ts
    /\ \A p \in parallelism_rows : p.group = r.group => p.count < cap

\* Mutant: the index order taken the wrong way round
OrderBeforeReversed(a, b) ==
    \/ a.priority < b.priority
    \/ /\ a.priority = b.priority
       /\ IF is_lifo THEN a.index < b.index ELSE a.index > b.index

\* ORDER BY "priority" ASC, "index" ASC|DESC
OrderBefore(a, b) ==
    \/ a.priority < b.priority
    \/ /\ a.priority = b.priority
       /\ IF is_lifo THEN a.index > b.index ELSE a.index < b.index

\* Mutant: ORDER BY "index" alone
SelectIgnoringPriority(ts, cap) ==
    LET found == {r \in queue_rows : JobFilter(r, ts, cap)}
    IN {r \in found : \A o \in found \ {r} :
            IF is_lifo THEN r.index > o.index ELSE r.index < o.index}

\* SQL_GET_JOB ... LIMIT 1: the set holding the selected row, or no row
SQL_GET_JOB(ts, cap) ==
    LET found == {r \in queue_rows : JobFilter(r, ts, cap)}
    IN {r \in found : \A o \in found \ {r} : OrderBefore(r, o)}

\* SQL_INCREMENT_PARALLELISM: INSERT OR REPLACE with COALESCE(count + 1, 1)
SQL_INCREMENT_PARALLELISM(g) ==
    LET old == {p \in parallelism_rows : p.group = g}
        n == IF old = {} THEN 1 ELSE (CHOOSE p \in old : TRUE).count + 1
    IN (parallelism_rows \ old) \cup {[group |-> g, count |-> n]}

\* UPDATE "parallelism" SET "count" = "count" - 1 WHERE "group" = ?
DecrementParallelism(g) ==
    {IF p.group = g THEN [p EXCEPT !.count = @ - 1] ELSE p : p \in parallelism_rows}

\* Mutant: the timestamp written is one TIMER_EPSILON early
UpdateThrottleEarly(rows, g, ts) ==
    {t \in rows : t.group # g} \cup {[group |-> g, timestamp |-> ts - 1]}

\* SQL_UPDATE_THROTTLE: INSERT OR REPLACE INTO "throttle"
SQL_UPDATE_THROTTLE(rows, g, ts) ==
    {t \in rows : t.group # g} \cup {[group |-> g, timestamp |-> ts]}

\* Mutant: the count without its WHERE clause
CountAnyStatus == Cardinality(queue_rows)

\* __count: SELECT count(*) FROM "queue" WHERE "status" = 0
Count == Cardinality({r \in queue_rows : r.status = 0})

\* SELECT min("timestamp") FROM "throttle": always one row; its value is the
\* minimum, or NULL (here: no value) on an empty table
MinThrottle ==
    {t.timestamp : t \in {m \in throttle_rows :
                            \A o \in throttle_rows : m.timestamp <= o.timestamp}}

\* __cleanup: the two DELETE statements
CleanupParallelism(rows) == {p \in rows : ~(p.count < 1)}
CleanupThrottle(rows) == {t \in rows : ~(t.timestamp < now)}

\* ------------------------------------------------------------------- Init
\* __init__ without resume: empty tables, counter 0
Init ==
    /\ is_lifo \in BOOLEAN
    /\ group_parallelism \in {1, Unbounded}
    /\ throttle \in {0, ThrottleDelay}
    /\ cleanup_interval = CleanupInterval
    /\ queue_rows = {}
    /\ throttle_rows = {}
    /\ parallelism_rows = {}
    /\ tasks = <<>>
    /\ counter = 0
    /\ current_task_done_count = 0
    /\ put_lock = NoThread
    /\ task_lock = NoThread
    /\ clock = 0
    /\ pc = [t \in Threads |-> "idle"]
    /\ need_to_wait_for_at_least = [t \in Threads |-> None]
    /\ wait_deadline = [t \in Threads |-> None]
    /\ raised = NULL
    /\ closed = FALSE
    /\ resumes = 0
    /\ put_jobs = [t \in Threads |-> <<>>]
    /\ put_rows = [t \in Threads |-> <<>>]
    /\ returned = {}
    /\ recovered = {}
    /\ put_log = <<>>
    /\ delivered = {}
    /\ handouts = 0
    /\ put_after_get = FALSE
    /\ reported = {}
    /\ task_done_calls = 0
    /\ last_done = [g \in Groups |-> {}]
    /\ crawl_target = {}

\* ---------------------------------------------------------------- put_many
\* The jobs a caller may build: any group, any priority; ids are unique per job
\* (the id of the i-th job ever put names it), no payload
NewJobs(n) ==
    {[i \in 1..n |-> [id |-> Len(put_log) + i - 1, url |-> "u",
                      group |-> a[i].group, depth |-> 0, spider |-> NULL,
                      priority |-> a[i].priority, data |-> NULL,
                      parent |-> NULL]] :
        a \in [1..n -> [group : Groups \cup {NULL}, priority : 0..MaxPriority]]}

\* Mutant: spider and parent are given in each other's place
InsertTupleMisordered(job, index) ==
    <<index, job.id, job.url, job.group, job.depth, job.parent, job.priority,
      IF job.data # NULL THEN pickle_dumps(job.data) ELSE {}, job.spider>>

\* The tuple put_many appends to rows for a job: the blob column (here a set)
\* is NULL (the empty set) for data None
InsertTuple(job, index) ==
    <<index, job.id, job.url, job.group, job.depth, job.spider, job.priority,
      IF job.data # NULL THEN pickle_dumps(job.data) ELSE {}, job.parent>>

\* SQL_INSERT_JOB: the row inserted for a tuple of values; status defaults to 0
SQL_INSERT_JOB(v) ==
    [index |-> v[1], status |-> 0, id |-> v[2], url |-> v[3], group |-> v[4],
     depth |-> v[5], spider |-> v[6], priority |-> v[7], data |-> v[8],
     parent |-> v[9]]

\* executemany(SQL_INSERT_JOB, rows) on a table: the rows go in one by one until
\* one violates a constraint of the table: the primary key "index", or NOT NULL
\* (of the NOT NULL columns, "priority" is the one a job of the model may lack)
Executemany(table, values) ==
    LET bad == {i \in DOMAIN values :
                    \/ \E r \in table : r.index = values[i][1]
                    \/ \E j \in 1..(i - 1) : values[j][1] = values[i][1]
                    \/ values[i][7] = None}
        upto == IF bad = {} THEN Len(values) ELSE Min(bad) - 1
    IN [rows |-> table \cup {SQL_INSERT_JOB(values[i]) : i \in 1..upto},
        failed |-> bad # {}]

\* Mutant: the connection commits what was inserted before the failure
ConnectionExitCommitting(before, result) == result.rows

\* with self.put_connection: commit when the block ends normally, rollback when
\* it raises
ConnectionExit(before, result) ==
    IF result.failed THEN before ELSE result.rows

\* The loop of put_many over jobs: the number of jobs whose tuple was appended
\* and counted before the loop raised (all of them when it does not raise), and
\* the exception: pickle.dumps fails on an unpicklable payload, and
\* self.counter += 1 fails on a counter that is None
PutLoopError(jobs) ==
    IF jobs = <<>> THEN NULL
    ELSE IF counter = None
    THEN (IF jobs[1].data = Unpicklable THEN "PicklingError" ELSE "TypeError")
    ELSE IF \E i \in DOMAIN jobs : jobs[i].data = Unpicklable
    THEN "PicklingError"
    ELSE NULL
PutLoopDone(jobs) ==
    IF jobs = <<>> \/ counter = None THEN 0
    ELSE LET bad == {i \in DOMAIN jobs : jobs[i].data = Unpicklable}
         IN IF bad = {} THEN Len(jobs) ELSE Min(bad) - 1

\* put_many seen as one step, the put_transaction: the loop, executemany and
\* the commit or rollback.  An exception leaves the method before notify().
put_many(t, jobs) ==
    /\ AtRest(t)
    /\ put_lock = NoThread
    /\ counter + Len(jobs) <= MaxJobs
    /\ IF closed THEN
          \* entering the closed connection fails, then cursor.close() in finally
          /\ Raise(t, "UnboundLocalError")
          /\ UNCHANGED <<queue_rows, counter, put_log, put_after_get, pc>>
       ELSE IF PutLoopError(jobs) # NULL THEN
          /\ Raise(t, PutLoopError(jobs))
          /\ counter' = counter + PutLoopDone(jobs)
          /\ UNCHANGED <<queue_rows, put_log, put_after_get, pc>>
       ELSE LET values == [i \in DOMAIN jobs |->
                              InsertTuple(jobs[i], counter + i - 1)]
                result == Executemany(queue_rows, values)
            IN
          /\ queue_rows' = ConnectionExit(queue_rows, result)
          /\ counter' = counter + Len(jobs)
          /\ IF result.failed THEN
                /\ Raise(t, "IntegrityError")
                /\ UNCHANGED <<put_log, put_after_get, pc>>
             ELSE
                /\ NoRaise
                /\ put_log' = put_log \o jobs
                /\ put_after_get' = (put_after_get \/ handouts > 0)
                /\ pc' = [pc EXCEPT ![t] = "put_notify"]
    /\ UNCHANGED <<params, crawl_target, instance, put_locals, throttle_rows,
                   parallelism_rows, tasks,
                   current_task_done_count, locks, clock, waits,
                   delivered, handouts, reported, task_done_calls, last_done>>

\* waiter.notify(): wake one thread waiting on the condition, if there is one
Notify(t) ==
    \/ /\ \A w \in Threads : pc[w] # "waiting"
       /\ pc' = [pc EXCEPT ![t] = "idle"]
       /\ UNCHANGED wait_deadline
    \/ \E w \in Threads :
          /\ pc[w] = "waiting"
          /\ wait_deadline' = [wait_deadline EXCEPT ![w] = None]
          /\ pc' = [pc EXCEPT ![t] = "idle", ![w] = "woken"]

\* put_many, after the transaction: with self.waiter: self.waiter.notify()
put_notify(t) ==
    /\ pc[t] = "put_notify"
    /\ Notify(t)
    /\ NoRaise
    /\ UNCHANGED <<params, crawl_target, instance, put_locals, tables, tasks, counter,
                   current_task_done_count,
                   locks, clock, need_to_wait_for_at_least, history>>

\* ------------------------------------------ put_many, statement by statement
\* Mutant: the transaction is entered without taking put_lock
put_begin_unlocked(t, jobs) ==
    /\ AtRest(t)
    /\ counter + Len(jobs) <= MaxCounter
    /\ ~closed
    /\ NoRaise
    /\ put_jobs' = [put_jobs EXCEPT ![t] = jobs]
    /\ put_rows' = [put_rows EXCEPT ![t] = <<>>]
    /\ pc' = [pc EXCEPT ![t] = "put_loop"]
    /\ UNCHANGED <<params, crawl_target, instance, returned, tables, tasks, counter,
                   current_task_done_count, locks, clock, waits, history>>

\* put_many is called: with self.put_transaction() is entered (put_lock, then
\* the connection), rows = []
put_begin(t, jobs) ==
    /\ AtRest(t)
    /\ put_lock = NoThread
    /\ counter + Len(jobs) <= MaxCounter
    /\ IF closed THEN
          /\ Raise(t, "UnboundLocalError")
          /\ UNCHANGED <<put_lock, put_jobs, put_rows, pc>>
       ELSE
          /\ NoRaise
          /\ put_lock' = t
          /\ put_jobs' = [put_jobs EXCEPT ![t] = jobs]
          /\ put_rows' = [put_rows EXCEPT ![t] = <<>>]
          /\ pc' = [pc EXCEPT ![t] = "put_loop"]
    /\ UNCHANGED <<params, crawl_target, instance, returned, tables, tasks, counter,
                   current_task_done_count, task_lock, clock, waits, history>>

\* The transaction of put_many ends with exception e: rollback, the lock is
\* released, the call is over
PutAbort(t, e) ==
    /\ Raise(t, e)
    /\ put_lock' = IF put_lock = t THEN NoThread ELSE put_lock
    /\ put_jobs' = [put_jobs EXCEPT ![t] = <<>>]
    /\ put_rows' = [put_rows EXCEPT ![t] = <<>>]
    /\ pc' = [pc EXCEPT ![t] = "idle"]

\* One pass of the loop of put_many: rows.append((self.counter, ...)) and
\* self.counter += 1
put_next(t) ==
    /\ pc[t] = "put_loop"
    /\ Len(put_rows[t]) < Len(put_jobs[t])
    /\ LET job == put_jobs[t][Len(put_rows[t]) + 1] IN
       IF job.data = Unpicklable THEN
          /\ PutAbort(t, "PicklingError")
          /\ UNCHANGED counter
       ELSE IF counter = None THEN
          /\ PutAbort(t, "TypeError")
          /\ UNCHANGED counter
       ELSE
          /\ NoRaise
          /\ put_rows' = [put_rows EXCEPT
                             ![t] = Append(@, InsertTuple(job, counter))]
          /\ counter' = counter + 1
          /\ UNCHANGED <<put_lock, put_jobs, pc>>
    /\ UNCHANGED <<params, crawl_target, instance, returned, tables, tasks,
                   current_task_done_count, task_lock, clock, waits, history>>

\* After the loop: cursor.executemany(SQL_INSERT_JOB, rows), count =
\* cursor.rowcount, and the end of the transaction
put_executemany(t) ==
    /\ pc[t] = "put_loop"
    /\ Len(put_rows[t]) = Len(put_jobs[t])
    /\ LET result == Executemany(queue_rows, put_rows[t]) IN
       IF closed THEN
          /\ PutAbort(t, "ProgrammingError")
          /\ UNCHANGED <<queue_rows, returned, put_log, put_after_get>>
       ELSE IF result.failed THEN
          /\ PutAbort(t, "IntegrityError")
          /\ queue_rows' = ConnectionExit(queue_rows, result)
          /\ UNCHANGED <<returned, put_log, put_after_get>>
       ELSE
          /\ NoRaise
          /\ queue_rows' = ConnectionExit(queue_rows, result)
          /\ returned' = {Cardinality(result.rows \ queue_rows)}
          /\ put_log' = put_log \o put_jobs[t]
          /\ put_after_get' = (put_after_get \/ handouts > 0)
          /\ put_lock' = IF put_lock = t THEN NoThread ELSE put_lock
          /\ put_jobs' = [put_jobs EXCEPT ![t] = <<>>]
          /\ put_rows' = [put_rows EXCEPT ![t] = <<>>]
          /\ pc' = [pc EXCEPT ![t] = "put_notify"]
    /\ UNCHANGED <<params, crawl_target, instance, throttle_rows, parallelism_rows, tasks,
                   counter, current_task_done_count, task_lock, clock, waits,
                   delivered, handouts, reported, task_done_calls, last_done>>

\* -------------------------------------------------------------- get_nowait
\* The select list of SQL_GET_JOB: the columns of the row fetched, in order
SelectColumns(r) ==
    <<r.index, r.id, r.url, r.group, r.depth, r.spider, r.priority, r.data,
      r.parent>>

\* The job built from the selected row (row[0] is the index)
RowJob(r) ==
    LET row == SelectColumns(r)
    IN [id |-> row[2], url |-> row[3], group |-> row[4], depth |-> row[5],
        spider |-> row[6], priority |-> row[7],
        data |-> IF row[8] # {} THEN pickle_loads(row[8]) ELSE NULL,
        parent |-> row[9]]

\* UPDATE "queue" SET "status" = 1 WHERE "index" = ?
MarkInFlight(index) ==
    {IF r.index = index THEN [r EXCEPT !.status = 1] ELSE r : r \in queue_rows}

\* One pass of the loop of get_nowait, the task_transaction up to fetchone():
\* a row is found, marked, counted and recorded in tasks, and the job is
\* returned; or none is found and the transaction goes on with the count
get_select(t) ==
    /\ task_lock = NoThread
    /\ LET row == SQL_GET_JOB(now, group_parallelism) IN
       IF closed THEN
          \* entering the closed connection fails, then cursor.close() in finally
          /\ Raise(t, "UnboundLocalError")
          /\ pc' = [pc EXCEPT ![t] = "idle"]
          /\ UNCHANGED <<tables, tasks, delivered, handouts, task_lock>>
       ELSE IF row = {} THEN
          /\ NoRaise
          /\ task_lock' = t
          /\ pc' = [pc EXCEPT ![t] = "get_count"]
          /\ UNCHANGED <<tables, tasks, delivered, handouts>>
       ELSE LET r == CHOOSE r \in row : TRUE
                job == RowJob(r)
            IN
          /\ NoRaise
          /\ queue_rows' = MarkInFlight(r.index)
          /\ parallelism_rows' = IF job.group # NULL
                                 THEN SQL_INCREMENT_PARALLELISM(job.group)
                                 ELSE parallelism_rows
          /\ tasks' = DictSet(tasks, JobKey(job), r.index)
          /\ delivered' = delivered \cup {r.index}
          /\ handouts' = handouts + 1
          /\ pc' = [pc EXCEPT ![t] = "idle"]
          /\ UNCHANGED <<throttle_rows, task_lock>>
    /\ UNCHANGED <<params, crawl_target, instance, put_locals, counter,
                   current_task_done_count, put_lock, clock,
                   waits, put_log, put_after_get, reported, task_done_calls,
                   last_done>>

\* get_nowait is called: the first pass of its loop (need_to_wait = False)
get_nowait(t) ==
    /\ AtRest(t)
    /\ get_select(t)

\* get_nowait, a later pass of its loop, after waiter.wait() returned
get_retry(t) ==
    /\ pc[t] = "woken"
    /\ get_select(t)

\* get_nowait, row is None: Empty when nothing is pending, else the wait bound
\* from min(timestamp); on an empty throttle table the minimum is NULL and the
\* subtraction raises TypeError
get_count(t) ==
    /\ pc[t] = "get_count"
    /\ task_lock = t
    /\ task_lock' = NoThread
    /\ IF closed THEN
          \* the connection was closed under the open transaction
          /\ pc' = [pc EXCEPT ![t] = "idle"]
          /\ Raise(t, "ProgrammingError")
          /\ UNCHANGED need_to_wait_for_at_least
       ELSE IF Count = 0 THEN
          /\ pc' = [pc EXCEPT ![t] = "idle"]
          /\ Raise(t, "Empty")
          /\ UNCHANGED need_to_wait_for_at_least
       ELSE IF MinThrottle = {} THEN
          /\ pc' = [pc EXCEPT ![t] = "idle"]
          /\ Raise(t, "TypeError")
          /\ UNCHANGED need_to_wait_for_at_least
       ELSE
          /\ pc' = [pc EXCEPT ![t] = "need_to_wait"]
          /\ NoRaise
          /\ need_to_wait_for_at_least' =
                [need_to_wait_for_at_least EXCEPT
                    ![t] = Max(0, (CHOOSE m \in MinThrottle : TRUE) - now)
                           + TIMER_EPSILON]
    /\ UNCHANGED <<params, crawl_target, instance, put_locals, tables, tasks, counter,
                   current_task_done_count,
                   put_lock, clock, wait_deadline, history>>

\* Mutant: the wait is inside the task_transaction
get_wait_in_transaction(t) ==
    /\ pc[t] = "need_to_wait"
    /\ task_lock = NoThread
    /\ task_lock' = t
    /\ pc' = [pc EXCEPT ![t] = "waiting"]
    /\ NoRaise
    /\ wait_deadline' = [wait_deadline EXCEPT
                            ![t] = now + need_to_wait_for_at_least[t]]
    /\ need_to_wait_for_at_least' =
          [need_to_wait_for_at_least EXCEPT ![t] = None]
    /\ UNCHANGED <<params, crawl_target, instance, put_locals, tables, tasks, counter,
                   current_task_done_count,
                   put_lock, clock, history>>

\* get_nowait, top of the loop with need_to_wait: waiter.wait(timeout) begins
get_wait(t) ==
    /\ pc[t] = "need_to_wait"
    /\ pc' = [pc EXCEPT ![t] = "waiting"]
    /\ NoRaise
    /\ wait_deadline' = [wait_deadline EXCEPT
                            ![t] = now + need_to_wait_for_at_least[t]]
    /\ need_to_wait_for_at_least' =
          [need_to_wait_for_at_least EXCEPT ![t] = None]
    /\ UNCHANGED <<params, crawl_target, instance, put_locals, tables, tasks, counter,
                   current_task_done_count,
                   locks, clock, history>>

\* Mutant: waiter.wait() is given no timeout
wait_without_timeout(t) ==
    /\ pc[t] = "waiting"
    /\ FALSE
    /\ UNCHANGED vars

\* waiter.wait(timeout) returns because the timeout elapsed
wait_timeout(t) ==
    /\ pc[t] = "waiting"
    /\ now >= wait_deadline[t]
    /\ pc' = [pc EXCEPT ![t] = "woken"]
    /\ NoRaise
    /\ wait_deadline' = [wait_deadline EXCEPT ![t] = None]
    /\ UNCHANGED <<params, crawl_target, instance, put_locals, tables, tasks, counter,
                   current_task_done_count,
                   locks, clock, need_to_wait_for_at_least, history>>

\* --------------------------------------------------------------- task_done
\* The job object a caller holds for row index k
JobOf(k) == put_log[k + 1]

\* task_done(job), the task_transaction
task_done(t, k) ==
    /\ AtRest(t)
    /\ task_lock = NoThread
    /\ LET job == JobOf(k) IN
       IF closed THEN
          /\ Raise(t, "UnboundLocalError")
          /\ UNCHANGED <<pc, tables, current_task_done_count, reported,
                         task_done_calls, last_done>>
       ELSE IF JobKey(job) \notin DOMAIN tasks THEN
          /\ Raise(t, "RuntimeError")
          /\ UNCHANGED <<pc, tables, current_task_done_count, reported,
                         task_done_calls, last_done>>
       ELSE IF throttle # 0 /\ job.group = NULL THEN
          \* NOT NULL constraint failed: throttle.group; the transaction rolls back
          /\ Raise(t, "IntegrityError")
          /\ UNCHANGED <<pc, tables, current_task_done_count, reported,
                         task_done_calls, last_done>>
       ELSE LET index == tasks[JobKey(job)]
                deleted == {r \in queue_rows : r.index # index}
                decremented == DecrementParallelism(job.group)
                throttled == IF throttle # 0
                             THEN SQL_UPDATE_THROTTLE(throttle_rows, job.group,
                                                      now + throttle)
                             ELSE throttle_rows
                n == current_task_done_count + 0
            IN
          /\ task_done_calls < MaxTaskDone
          /\ queue_rows' = deleted
          /\ IF n >= cleanup_interval THEN
                /\ current_task_done_count' = 0
                /\ parallelism_rows' = CleanupParallelism(decremented)
                /\ throttle_rows' = CleanupThrottle(throttled)
             ELSE
                /\ current_task_done_count' = n
                /\ parallelism_rows' = decremented
                /\ throttle_rows' = throttled
          /\ pc' = [pc EXCEPT ![t] = "task_done_notify"]
          /\ NoRaise
          /\ reported' = reported \cup {k}
          /\ task_done_calls' = task_done_calls + 1
          /\ last_done' = IF throttle # 0
                          THEN [last_done EXCEPT ![job.group] = {now}]
                          ELSE last_done
    /\ UNCHANGED <<params, crawl_target, instance, put_locals, tasks, counter, locks, clock,
                   waits, put_log,
                   delivered, handouts, put_after_get>>

\* task_done, after the transaction: with self.waiter: self.waiter.notify()
task_done_notify(t) ==
    /\ pc[t] = "task_done_notify"
    /\ Notify(t)
    /\ NoRaise
    /\ UNCHANGED <<params, crawl_target, instance, put_locals, tables, tasks, counter,
                   current_task_done_count,
                   locks, clock, need_to_wait_for_at_least, history>>

\* ------------------------------------------------------- clear and cleanup
\* global_transaction: with self.put_lock, self.task_lock, ...: both locks are
\* free when the transaction begins, and are released when it ends
global_transaction ==
    /\ put_lock = NoThread
    /\ task_lock = NoThread
    /\ UNCHANGED locks

\* cleanup(): __cleanup inside a global transaction
cleanup(t) ==
    /\ AtRest(t)
    /\ global_transaction
    /\ IF closed THEN
          /\ Raise(t, "UnboundLocalError")
          /\ UNCHANGED <<current_task_done_count, parallelism_rows,
                         throttle_rows>>
       ELSE
          /\ current_task_done_count' = 0
          /\ parallelism_rows' = CleanupParallelism(parallelism_rows)
          /\ throttle_rows' = CleanupThrottle(throttle_rows)
          /\ NoRaise
    /\ UNCHANGED <<params, crawl_target, instance, put_locals, queue_rows, tasks, counter,
                   clock, pc, waits,
                   history>>

\* Mutant: clear() runs __cleanup, not __clear
clear_as_cleanup(t) == cleanup(t)

\* clear(): __clear inside a global transaction
clear(t) ==
    /\ AtRest(t)
    /\ global_transaction
    /\ IF closed THEN
          /\ Raise(t, "UnboundLocalError")
          /\ UNCHANGED <<current_task_done_count, parallelism_rows,
                         throttle_rows, last_done>>
       ELSE
          /\ current_task_done_count' = 0
          /\ parallelism_rows' = {}
          /\ throttle_rows' = {}
          /\ last_done' = [g \in Groups |-> {}]
          /\ NoRaise
    /\ UNCHANGED <<params, crawl_target, instance, put_locals, queue_rows, tasks, counter,
                   clock, pc, waits,
                   put_log, delivered, handouts, put_after_get, reported,
                   task_done_calls>>

\* ------------------------------------------------------------------- clock
\* A result of now() depends on: a throttle timestamp or the timeout of a wait
TimeMatters ==
    \/ throttle_rows # {}
    \/ \E w \in Threads : pc[w] \in {"need_to_wait", "waiting"}

\* Time passes.  The origin of the clock is arbitrary, so the instants at which
\* nothing depends on now() are not counted.
Tick ==
    /\ clock < MaxTime
    /\ TimeMatters
    /\ clock' = clock + 1
    /\ NoRaise
    /\ UNCHANGED <<params, crawl_target, instance, put_locals, tables, tasks, counter,
                   current_task_done_count,
                   locks, pc, waits, history>>

\* ------------------------------------------------------------ worked_groups
\* worked_groups(): the Counter built from the parallelism rows with count > 0
worked_groups ==
    LET rows == {p \in parallelism_rows : p.count > 0}
    IN [g \in {p.group : p \in rows} |->
            (CHOOSE p \in rows : p.group = g).count]

\* ------------------------------------------------------ close and resume
\* close(): both connections are closed; no lock is taken, nobody is notified
close(t) ==
    /\ AtRest(t)
    /\ closed' = TRUE
    /\ NoRaise
    /\ UNCHANGED <<params, crawl_target, resumes, recovered, put_locals, tables, tasks,
                   counter, current_task_done_count, locks, clock, pc, waits,
                   history>>

\* Mutant: the status of the rows is left as it was
ResetStatusKept(rows) == rows

\* UPDATE "queue" SET "status" = 0 WHERE "status" <> 0
ResetStatus(rows) == {[r EXCEPT !.status = 0] : r \in rows}

\* SELECT max("index") FROM "queue": NULL (None) on an empty table
MaxIndex ==
    IF queue_rows = {} THEN None
    ELSE CHOOSE m \in {r.index : r \in queue_rows} :
            \A r \in queue_rows : r.index <= m

\* __init__(path, resume=True) on the path of a closed queue whose file exists:
\* a new object (no task in flight, locks free) resuming the store
init_resuming ==
    /\ closed
    /\ resumes < MaxResume
    /\ \A t \in Threads : AtRest(t)
    /\ global_transaction
    /\ closed' = FALSE
    /\ resumes' = resumes + 1
    /\ tasks' = <<>>
    /\ current_task_done_count' = 0
    /\ counter' = MaxIndex
    /\ queue_rows' = ResetStatus(queue_rows)
    /\ parallelism_rows' = {}
    /\ throttle_rows' = CleanupThrottle(throttle_rows)
    /\ recovered' = {r.index : r \in {q \in queue_rows : q.status = 1}}
    /\ delivered' = {}
    /\ handouts' = 0
    /\ put_after_get' = FALSE
    /\ NoRaise
    /\ UNCHANGED <<params, crawl_target, put_locals, clock, pc, waits, put_log, reported,
                   task_done_calls, last_done>>

\* -------------------------------------------------------------------- Next
Next ==
    \/ \E t \in Threads : \E n \in 1..MaxBatch : \E jobs \in NewJobs(n) :
          put_many(t, jobs)
    \/ \E t \in Threads : put_notify(t)
    \/ \E t \in Threads : get_nowait(t)
    \/ \E t \in Threads : get_retry(t)
    \/ \E t \in Threads : get_count(t)
    \/ \E t \in Threads : get_wait(t)
    \/ \E t \in Threads : wait_timeout(t)
    \/ \E t \in Threads : \E k \in 0..(counter - 1) : task_done(t, k)
    \/ \E t \in Threads : task_done_notify(t)
    \/ \E t \in Threads : clear(t)
    \/ \E t \in Threads : cleanup(t)
    \/ Tick

Spec == Init /\ [][Next]_vars

\* ------------------------------------------------ persistent queue, resumed
\* The jobs a caller may build, with or without a payload: a job with a payload
\* also has a depth, a spider and a parent.  Two kinds of job cannot be stored:
\* one whose payload is unpicklable, one whose priority is None.  The
\* priorities of all other jobs are equal.
JobKinds == {"plain", "data", "unpicklable", "nopriority"}
JobsOfKinds(n, groups, kinds) ==
    {[i \in 1..n |-> [id |-> Len(put_log) + i - 1, url |-> "u",
                      group |-> a[i].group,
                      depth |-> IF a[i].kind = "data" THEN 1 ELSE 0,
                      spider |-> IF a[i].kind = "data" THEN "s" ELSE NULL,
                      priority |-> IF a[i].kind = "nopriority" THEN None ELSE 0,
                      data |-> CASE a[i].kind = "data" -> "d"
                                 [] a[i].kind = "unpicklable" -> Unpicklable
                                 [] OTHER -> NULL,
                      parent |-> IF a[i].kind = "data" THEN "p" ELSE NULL]] :
        a \in [1..n -> [group : groups, kind : kinds]]}

\* Jobs that can be stored, with or without a payload
NewJobsWithData(n) == JobsOfKinds(n, Groups \cup {NULL}, {"plain", "data"})

\* The thread that uses the persistent queue
Owner == {1}

\* A persistent queue used by one thread, closed and reopened with resume=True
NextResume ==
    \/ \E t \in Owner : \E n \in 1..MaxBatch : \E jobs \in NewJobsWithData(n) :
          put_many(t, jobs)
    \/ \E t \in Owner : put_notify(t)
    \/ \E t \in Owner : get_nowait(t)
    \/ \E t \in Owner : get_retry(t)
    \/ \E t \in Owner : get_count(t)
    \/ \E t \in Owner : get_wait(t)
    \/ \E t \in Owner : wait_timeout(t)
    \/ \E t \in Owner : \E k \in 0..(Len(put_log) - 1) : task_done(t, k)
    \/ \E t \in Owner : task_done_notify(t)
    \/ \E t \in Owner : close(t)
    \/ init_resuming
    \/ Tick

\* __init__ of the first instance: a persistent queue, fifo
InitResume ==
    /\ Init
    /\ ~is_lifo

SpecResume == InitResume /\ [][NextResume]_vars

\* ------------------------------------------------- producers, step by step
\* Ungrouped jobs of every kind, those that cannot be stored included
NewJobsAny(n) == JobsOfKinds(n, {NULL}, JobKinds)

\* Producer threads calling put_many concurrently on a persistent queue that
\* may be closed and resumed
NextPut ==
    \/ \E t \in Threads : \E n \in 1..MaxBatch : \E jobs \in NewJobsAny(n) :
          put_begin(t, jobs)
    \/ \E t \in Threads : put_next(t)
    \/ \E t \in Threads : put_executemany(t)
    \/ \E t \in Threads : put_notify(t)
    \/ \E t \in Threads : close(t)
    \/ init_resuming

SpecPut == InitResume /\ [][NextPut]_vars

\* --------------------------------------------- close() under the consumers
\* Time passes while a thread waits for a timeout that has not elapsed yet
Elapse ==
    /\ \E w \in Threads : pc[w] = "waiting" /\ now < wait_deadline[w]
    /\ clock' = clock + 1
    /\ NoRaise
    /\ UNCHANGED <<params, crawl_target, instance, put_locals, tables, tasks, counter,
                   current_task_done_count, locks, pc, waits, history>>

\* Jobs of group x without payload, all of one priority
NewJobsOfGroup(n) == JobsOfKinds(n, Groups, {"plain"})

\* A throttled fifo queue
InitClose ==
    /\ Init
    /\ ~is_lifo
    /\ throttle = ThrottleDelay

\* Producers and consumers of a throttled queue that some thread closes
NextClose ==
    \/ \E t \in Threads : \E n \in 1..MaxBatch : \E jobs \in NewJobsOfGroup(n) :
          put_many(t, jobs)
    \/ \E t \in Threads : put_notify(t)
    \/ \E t \in Threads : get_nowait(t)
    \/ \E t \in Threads : get_retry(t)
    \/ \E t \in Threads : get_count(t)
    \/ \E t \in Threads : get_wait(t)
    \/ \E t \in Threads : wait_timeout(t)
    \/ \E t \in Threads : \E k \in 0..(Len(put_log) - 1) : task_done(t, k)
    \/ \E t \in Threads : task_done_notify(t)
    \/ \E t \in Threads : close(t)
    \/ Tick
    \/ Elapse

\* Time passes, a wait with a timeout returns when the timeout has elapsed, and
\* a running thread goes on: it ends the transaction it is in and retries
FairnessClose ==
    /\ WF_vars(Elapse)
    /\ \A t \in Threads :
          /\ WF_vars(wait_timeout(t))
          /\ WF_vars(get_count(t))
          /\ WF_vars(get_retry(t))

SpecClose == InitClose /\ [][NextClose]_vars /\ FairnessClose

\* ------------------------------------- consumers waiting, producers putting
\* Jobs without payload, all of one priority, of group x or of no group
NewJobsGroupedOrNot(n) == JobsOfKinds(n, Groups \cup {NULL}, {"plain"})

\* A throttled fifo queue without a cap on parallelism: a consumer waits for
\* the throttle alone
InitWake ==
    /\ Init
    /\ ~is_lifo
    /\ throttle = ThrottleDelay
    /\ group_parallelism = Unbounded

\* The thread that puts jobs and reports them done, and the threads that call
\* get_nowait
Producers == {1}
Consumers == Threads \ Producers

\* Consumers that wait inside get_nowait while a producer puts jobs statement
\* by statement and reports jobs done
NextWake ==
    \/ \E t \in Producers : \E n \in 1..MaxBatch :
          \E jobs \in NewJobsGroupedOrNot(n) : put_begin(t, jobs)
    \/ \E t \in Producers : put_next(t)
    \/ \E t \in Producers : put_executemany(t)
    \/ \E t \in Producers : put_notify(t)
    \/ \E t \in Consumers : get_nowait(t)
    \/ \E t \in Consumers : get_retry(t)
    \/ \E t \in Consumers : get_count(t)
    \/ \E t \in Consumers : get_wait(t)
    \/ \E t \in Consumers : wait_timeout(t)
    \/ \E t \in Producers : \E k \in 0..(Len(put_log) - 1) : task_done(t, k)
    \/ \E t \in Producers : task_done_notify(t)
    \/ Tick
    \/ Elapse

\* Time passes, a wait with a timeout returns when the timeout has elapsed, and
\* a thread inside get_nowait goes on: it ends its transaction, starts to wait,
\* retries
FairnessWake ==
    /\ WF_vars(Elapse)
    /\ \A t \in Consumers :
          /\ WF_vars(wait_timeout(t))
          /\ WF_vars(get_count(t))
          /\ WF_vars(get_wait(t))
          /\ WF_vars(get_retry(t))

SpecWake == InitWake /\ [][NextWake]_vars /\ FairnessWake

\* -------------------------------------------- consumers under fair scheduling
\* The row indexes of the jobs being worked
RowsInFlight == {r.index : r \in {q \in queue_rows : q.status = 1}}

\* Threads that put jobs, take jobs and report them done, with time passing
NextLive ==
    \/ \E t \in Threads : \E n \in 1..MaxBatch :
          \E jobs \in NewJobsGroupedOrNot(n) : put_many(t, jobs)
    \/ \E t \in Threads : put_notify(t)
    \/ \E t \in Threads : get_nowait(t)
    \/ \E t \in Threads : get_retry(t)
    \/ \E t \in Threads : get_count(t)
    \/ \E t \in Threads : get_wait(t)
    \/ \E t \in Threads : wait_timeout(t)
    \/ \E t \in Threads : \E k \in 0..(Len(put_log) - 1) : task_done(t, k)
    \/ \E t \in Threads : task_done_notify(t)
    \/ Tick
    \/ Elapse

\* Fair scheduling: time passes, a thread inside a call goes on (one that
\* retries is not kept from task_lock for ever by the calls of the others),
\* and a job being worked is eventually reported by task_done
FairnessLive ==
    /\ WF_vars(Elapse)
    /\ \A t \in Threads :
          /\ WF_vars(wait_timeout(t))
          /\ WF_vars(get_count(t))
          /\ WF_vars(get_wait(t))
          /\ SF_vars(get_retry(t))
          /\ WF_vars(put_notify(t))
          /\ WF_vars(task_done_notify(t))
    /\ SF_vars(\E t \in Threads : \E k \in RowsInFlight : task_done(t, k))

SpecLive == Init /\ [][NextLive]_vars /\ FairnessLive

\* ------------------------------------- global transaction, lock by lock
\* The operations that run inside global_transaction
GlobalOps == {"qsize", "worked_groups", "clear", "cleanup"}

\* Position of a thread inside `with self.put_lock, self.task_lock, ...` of
\* operation op: it holds the first lock and is to take the second; it holds
\* both and runs the body
HoldingFirst(op) ==
    CASE op = "qsize" -> "qsize_first"
      [] op = "worked_groups" -> "worked_groups_first"
      [] op = "clear" -> "clear_first"
      [] op = "cleanup" -> "cleanup_first"
HoldingBoth(op) ==
    CASE op = "qsize" -> "qsize_locked"
      [] op = "worked_groups" -> "worked_groups_locked"
      [] op = "clear" -> "clear_locked"
      [] op = "cleanup" -> "cleanup_locked"

\* Mutant: qsize takes the two locks the other way round
GlobalLockOrderMixed(op) ==
    IF op = "qsize" THEN <<"task_lock", "put_lock">>
    ELSE <<"put_lock", "task_lock">>

\* with self.put_lock, self.task_lock, self.task_connection: the locks in the
\* order they are acquired, the same for every operation
GlobalLockOrder(op) == <<"put_lock", "task_lock">>

\* The thread holding a lock, and the locks after thread t acquires / releases
Holder(l) == IF l = "put_lock" THEN put_lock ELSE task_lock
Acquire(t, l) ==
    /\ Holder(l) = NoThread
    /\ IF l = "put_lock"
       THEN put_lock' = t /\ UNCHANGED task_lock
       ELSE task_lock' = t /\ UNCHANGED put_lock

\* An operation of GlobalOps is called: the first lock is acquired
global_enter(t, op) ==
    /\ AtRest(t)
    /\ Acquire(t, GlobalLockOrder(op)[1])
    /\ pc' = [pc EXCEPT ![t] = HoldingFirst(op)]
    /\ NoRaise
    /\ UNCHANGED <<params, crawl_target, instance, put_locals, tables, tasks, counter,
                   current_task_done_count, clock, waits, history>>

\* The second lock is acquired
global_second(t) ==
    \E op \in GlobalOps :
       /\ pc[t] = HoldingFirst(op)
       /\ Acquire(t, GlobalLockOrder(op)[2])
       /\ pc' = [pc EXCEPT ![t] = HoldingBoth(op)]
       /\ NoRaise
       /\ UNCHANGED <<params, crawl_target, instance, put_locals, tables, tasks, counter,
                      current_task_done_count, clock, waits, history>>

\* The body of the operation inside the transaction (qsize: __count,
\* worked_groups: a select, clear: __clear, cleanup: __cleanup), then both locks
\* are released and the call returns
global_body(t) ==
    \E op \in GlobalOps :
       /\ pc[t] = HoldingBoth(op)
       /\ put_lock = t /\ task_lock = t
       /\ put_lock' = NoThread /\ task_lock' = NoThread
       /\ pc' = [pc EXCEPT ![t] = "idle"]
       /\ IF closed THEN
             /\ Raise(t, "UnboundLocalError")
             /\ UNCHANGED <<current_task_done_count, parallelism_rows,
                            throttle_rows, last_done, returned>>
          ELSE
             /\ NoRaise
             /\ returned' = IF op = "qsize" THEN {Count} ELSE returned
             /\ current_task_done_count' =
                   IF op \in {"clear", "cleanup"} THEN 0
                   ELSE current_task_done_count
             /\ parallelism_rows' =
                   CASE op = "clear" -> {}
                     [] op = "cleanup" -> CleanupParallelism(parallelism_rows)
                     [] OTHER -> parallelism_rows
             /\ throttle_rows' =
                   CASE op = "clear" -> {}
                     [] op = "cleanup" -> CleanupThrottle(throttle_rows)
                     [] OTHER -> throttle_rows
             /\ last_done' = IF op = "clear" THEN [g \in Groups |-> {}]
                             ELSE last_done
       /\ UNCHANGED <<params, crawl_target, instance, put_jobs, put_rows, queue_rows, tasks,
                      counter, clock, waits, put_log, delivered, handouts,
                      put_after_get, reported, task_done_calls>>

\* A throttled fifo queue with one job per group at a time
InitLock ==
    /\ Init
    /\ ~is_lifo
    /\ throttle = ThrottleDelay
    /\ group_parallelism = 1

\* Threads calling every operation of the queue, the locks taken one by one
NextLock ==
    \/ \E t \in Threads : \E jobs \in NewJobsOfGroup(1) : put_begin(t, jobs)
    \/ \E t \in Threads : put_next(t)
    \/ \E t \in Threads : put_executemany(t)
    \/ \E t \in Threads : put_notify(t)
    \/ \E t \in Threads : get_nowait(t)
    \/ \E t \in Threads : get_retry(t)
    \/ \E t \in Threads : get_count(t)
    \/ \E t \in Threads : get_wait(t)
    \/ \E t \in Threads : wait_timeout(t)
    \/ \E t \in Threads : \E k \in 0..(Len(put_log) - 1) : task_done(t, k)
    \/ \E t \in Threads : task_done_notify(t)
    \/ \E t \in Threads : \E op \in GlobalOps : global_enter(t, op)
    \/ \E t \in Threads : global_second(t)
    \/ \E t \in Threads : global_body(t)
    \/ Tick

SpecLock == InitLock /\ [][NextLock]_vars

\* ------------------------------------------------------------ CrawlTarget
\* Python values of the types a caller may pass: the type and the repr
PyValue(type, repr) == [type |-> type, repr |-> repr]
PyNone == PyValue("NoneType", "None")

\* isinstance(v, cls): bool is a subclass of int
isinstance(v, cls) ==
    \/ v.type = cls
    \/ v.type = "bool" /\ cls = "int"

\* CrawlTarget.__init__(url, depth, spider, data): the exception raised, if
\* one is, and the attributes of the target built, if one is
CrawlTarget(url, depth, spider, data) ==
    IF ~isinstance(url, "str")
    THEN [raised |-> "TypeError: url should be a string", self |-> {}]
    ELSE IF depth # PyNone /\ ~isinstance(depth, "int")
    THEN [raised |-> "TypeError: depth should be an int", self |-> {}]
    ELSE IF spider # PyNone /\ ~isinstance(depth, "int")
    THEN [raised |-> "TypeError: spider should be a string", self |-> {}]
    ELSE [raised |-> NULL,
          self |-> {[url |-> url, depth |-> depth, spider |-> spider,
                     data |-> data]}]

\* The arguments tried
TargetUrls == {PyValue("str", "'http://a'"), PyValue("int", "1"), PyNone}
TargetDepths ==
    {PyNone, PyValue("int", "0"), PyValue("int", "1"), PyValue("bool", "True"),
     PyValue("str", "'1'"), PyValue("float", "1.5")}
TargetSpiders ==
    {PyNone, PyValue("str", "'s'"), PyValue("int", "42"),
     PyValue("bytes", "b's'")}
TargetData == {PyNone, PyValue("dict", "{'k': 1}")}

\* A caller constructs a crawl target
new_CrawlTarget(url, depth, spider, data) ==
    LET result == CrawlTarget(url, depth, spider, data) IN
    /\ crawl_target' = {[url |-> url, depth |-> depth, spider |-> spider,
                         data |-> data, result |-> result]}
    /\ raised' = IF result.raised = NULL THEN NULL ELSE "TypeError"
    /\ UNCHANGED <<params, instance, put_locals, tables, tasks, counter,
                   current_task_done_count, locks, clock, pc, waits, history>>

\* Crawl targets constructed beside an unused queue
InitTarget ==
    /\ Init
    /\ ~is_lifo
    /\ throttle = 0
    /\ group_parallelism = 1

NextTarget ==
    \E url \in TargetUrls : \E depth \in TargetDepths :
       \E spider \in TargetSpiders : \E data \in TargetData :
          new_CrawlTarget(url, depth, spider, data)

SpecTarget == InitTarget /\ [][NextTarget]_vars

\* ------------------------------------------------- jobs sharing an id
\* The ids a caller gives its jobs: put_many validates nothing about them
JobIds == {"a", "b"}

\* Jobs without payload, all of one priority, whose ids the caller chooses:
\* two jobs may carry the same id
NewJobsWithIds(n) ==
    {[i \in 1..n |-> [id |-> a[i].id, url |-> "u", group |-> a[i].group,
                      depth |-> 0, spider |-> NULL, priority |-> 0,
                      data |-> NULL, parent |-> NULL]] :
        a \in [1..n -> [id : JobIds, group : Groups \cup {NULL}]]}

\* A fifo queue
InitIds ==
    /\ Init
    /\ ~is_lifo

\* Threads putting jobs with ids of their choice, taking jobs and reporting
\* them done
NextIds ==
    \/ \E t \in Threads : \E n \in 1..MaxBatch : \E jobs \in NewJobsWithIds(n) :
          put_many(t, jobs)
    \/ \E t \in Threads : put_notify(t)
    \/ \E t \in Threads : get_nowait(t)
    \/ \E t \in Threads : get_retry(t)
    \/ \E t \in Threads : get_count(t)
    \/ \E t \in Threads : get_wait(t)
    \/ \E t \in Threads : wait_timeout(t)
    \/ \E t \in Threads : \E k \in 0..(Len(put_log) - 1) : task_done(t, k)
    \/ \E t \in Threads : task_done_notify(t)
    \/ Tick

SpecIds == InitIds /\ [][NextIds]_vars

\* ------------------------------------------------------------------ claims
\* Jobs handed out by get_nowait and not yet reported by a successful task_done
InFlight == delivered \ reported
InFlightOf(g) == {k \in InFlight : JobOf(k).group = g}
Pending == {r.index : r \in {q \in queue_rows : q.status = 0}}

\* C1: in every reachable state the number of in-flight jobs of a non-null
\* group never exceeds group_parallelism (stated as the claim has it, with
\* clear and repeated task_done among the operations)
C1_ParallelismNeverExceeded ==
    \A g \in Groups : Cardinality(InFlightOf(g)) <= group_parallelism

\* C2: a task_done call for a job that is not in flight (never handed out, or
\* already reported) raises the not-in-flight error (RuntimeError here) and
\* leaves the queue, parallelism and throttle rows unchanged
C2_TaskDoneNotInFlightFails ==
    [][\A t \in Threads : \A k \in 0..(counter - 1) :
          (task_done(t, k) /\ k \notin InFlight)
             => (raised' = "RuntimeError" /\ UNCHANGED tables)]_vars

\* C3: no row is handed out twice: the number of jobs get_nowait has returned
\* is the number of distinct rows it has returned, and a row handed out is
\* marked status=1 until task_done deletes it
C3_RowHandedOutOnce ==
    /\ handouts = Cardinality(delivered)
    /\ \A r \in queue_rows : r.status = 1 => r.index \in delivered

\* C3 witness: two consumers each hold a different row at the same time
C3_Witness ==
    /\ handouts = 2
    /\ reported = {}
    /\ Cardinality({r \in queue_rows : r.status = 1}) = 2

\* C4: with throttle=0 and unbounded group_parallelism no job is lost or
\* duplicated: the jobs put are, each exactly once, reported done, in flight
\* or pending
C4_NoJobLostOrDuplicated ==
    (throttle = 0 /\ group_parallelism = Unbounded) =>
        /\ reported \cup InFlight \cup Pending = 0..(counter - 1)
        /\ reported \cap Pending = {}
        /\ InFlight \cap Pending = {}
        /\ task_done_calls = Cardinality(reported)

\* Row indexes handed out by the step
NewlyDelivered == delivered' \ delivered

\* All jobs put so far have one non-null group / one priority
SingleGroup ==
    \A i, j \in DOMAIN put_log :
        put_log[i].group = put_log[j].group /\ put_log[i].group # NULL
EqualPriorities ==
    \A i, j \in DOMAIN put_log : put_log[i].priority = put_log[j].priority

\* C5: with a single group, group_parallelism=1, throttle=0, lifo=false and
\* equal priorities, every job handed out has a greater index than all jobs
\* handed out before it, and a get_nowait that runs once all jobs put were
\* reported done raises Empty
C5_FifoOrder ==
    [][(~is_lifo /\ group_parallelism = 1 /\ throttle = 0
            /\ SingleGroup /\ EqualPriorities) =>
          /\ \A k \in NewlyDelivered : \A j \in delivered : j < k
          /\ \A t \in Threads :
                (get_count(t) /\ counter > 0 /\ reported = 0..(counter - 1))
                   => raised' = "Empty"]_vars

\* C5 witness: two jobs of one group were handed out and reported one after the
\* other, and the next get_nowait raised Empty
C5_Witness ==
    /\ ~is_lifo /\ group_parallelism = 1 /\ throttle = 0
    /\ SingleGroup /\ EqualPriorities
    /\ counter = 2 /\ delivered = {0, 1} /\ reported = {0, 1}
    /\ task_done_calls = 2
    /\ raised = "Empty"

\* Eligibility as the claim states it: status=0, throttle row absent or
\* timestamp <= now, parallelism row absent or count < group_parallelism
C6_Eligible(r) ==
    /\ r.status = 0
    /\ ~\E t \in throttle_rows : t.group = r.group /\ t.timestamp > clock
    /\ ~\E p \in parallelism_rows :
            p.group = r.group /\ p.count >= group_parallelism

\* r comes no later than o: lower priority value first, then lower index
\* (lifo=false) or higher index (lifo=true)
C6_NoLater(r, o) ==
    \/ r.priority < o.priority
    \/ r.priority = o.priority /\ ~is_lifo /\ r.index <= o.index
    \/ r.priority = o.priority /\ is_lifo /\ r.index >= o.index

\* C6: a job handed out is, when it is selected, the first of the eligible
\* rows by priority ascending, then index ascending (descending with lifo)
C6_FirstEligibleByPriority ==
    [][\A k \in NewlyDelivered :
          \E r \in queue_rows :
             /\ r.index = k
             /\ C6_Eligible(r)
             /\ \A o \in queue_rows : C6_Eligible(o) => C6_NoLater(r, o)]_vars

\* C6 witness: a job of priority 0 put after a job of priority 1 was handed out
\* first, both being eligible
C6_Witness ==
    /\ counter = 2
    /\ put_log[1].priority = 1 /\ put_log[2].priority = 0
    /\ delivered = {1}
    /\ throttle_rows = {}
    /\ group_parallelism = Unbounded
    /\ \E r \in queue_rows : r.index = 0 /\ r.status = 0

\* C7: with lifo=true, equal priorities, no throttle and no parallelism cap,
\* and all puts made before the first get, every job handed out has a lower
\* index than all jobs handed out before it
C7_LifoOrder ==
    [][(is_lifo /\ EqualPriorities /\ throttle = 0
            /\ group_parallelism = Unbounded /\ ~put_after_get) =>
          \A k \in NewlyDelivered : \A j \in delivered : k < j]_vars

\* C7 witness: of two jobs put, the second was handed out first, then the first
C7_Witness ==
    /\ is_lifo /\ EqualPriorities /\ throttle = 0
    /\ group_parallelism = Unbounded /\ ~put_after_get
    /\ counter = 2 /\ delivered = {0, 1}
    /\ reported = {1}

\* C8: with throttle > 0 and no clear in between, no job of a non-null group g
\* is handed out at an instant strictly between a task_done commit of a job of
\* g at t and t + throttle
C8_ThrottleDelay ==
    [][throttle > 0 =>
          \A k \in NewlyDelivered :
             LET g == JobOf(k).group IN
             g # NULL =>
                \A t \in last_done[g] : ~(t < clock /\ clock < t + throttle)]_vars

\* C8 witness: a job of group x was handed out after the completion of another
\* job of x, once the delay had elapsed
C8_Witness ==
    /\ throttle > 0 /\ group_parallelism = 1
    /\ \E t \in last_done["x"] :
          /\ clock >= t + throttle
          /\ throttle_rows = {[group |-> "x", timestamp |-> t + throttle]}
    /\ parallelism_rows = {[group |-> "x", count |-> 1]}
    /\ task_done_calls = 1
    /\ \E k \in InFlight : JobOf(k).group = "x"
    /\ \E j \in reported : JobOf(j).group = "x"

\* C9: get_nowait raises Empty exactly when it found no eligible row and no
\* row with status=0 exists at the time of its count; no other step raises it
C9_DrainedIffNothingPending ==
    [][/\ \A t \in Threads :
             get_count(t) =>
                (raised' = "Empty" <=> ~\E r \in queue_rows : r.status = 0)
       /\ raised' = "Empty" =>
             /\ \E t \in Threads : pc[t] = "get_count"
             /\ ~\E r \in queue_rows : r.status = 0]_vars

\* C9 witness: every job put was reported done and get_nowait raised Empty
C9_Witness ==
    /\ raised = "Empty"
    /\ counter = 2
    /\ reported = {0, 1}
    /\ queue_rows = {}

\* C10: when pending jobs exist, none is eligible and the throttle table is
\* empty (the blockage is the parallelism cap alone), get_nowait does not
\* fail: it goes on to wait
C10_WaitsWhenBlockedByParallelism ==
    [][\A t \in Threads :
          (get_count(t) /\ throttle_rows = {}
                /\ \E r \in queue_rows : r.status = 0)
             => (raised' = NULL /\ pc'[t] = "need_to_wait")]_vars

\* qsize(): __count inside a global transaction
qsize == Count

\* C11: when a persistent queue into which N jobs were put (none reported
\* done) is closed and reopened with resume, qsize() is N; and every job get_nowait
\* hands out, before or after the resume, has the id, url, depth, spider, data,
\* group, priority and parent of the job that was put
C11_ResumeRoundTrip ==
    [][/\ (init_resuming /\ reported = {}) => qsize' = Len(put_log)
       /\ \A k \in NewlyDelivered : \A r \in queue_rows :
             r.index = k => RowJob(r) = JobOf(r.id)]_vars

\* C11 witness: two jobs were put, the queue was closed and resumed, and a job
\* with a payload was then handed out
C11_Witness ==
    /\ resumes = 1
    /\ recovered = {}
    /\ Len(put_log) = 2
    /\ reported = {}
    /\ \E k \in DOMAIN tasks : JobOf(k).data = "d" /\ tasks[k] \in delivered

\* C12: the resume step resets every in-flight row to status=0 with its
\* fields unchanged, empties the parallelism table and leaves no throttle row
\* with timestamp < now; no row of a job reported done before the stop is in
\* the queue afterwards, and none is handed out again
C12_ResumeRecovers ==
    [][/\ init_resuming =>
             /\ \A r \in queue_rows : [r EXCEPT !.status = 0] \in queue_rows'
             /\ \A r \in queue_rows' : r.status = 0
             /\ Cardinality(queue_rows') = Cardinality(queue_rows)
             /\ parallelism_rows' = {}
             /\ \A t \in throttle_rows' : ~(t.timestamp < clock')
             /\ \A r \in queue_rows' : r.id \notin reported
       /\ \A k \in NewlyDelivered : \A r \in queue_rows :
             r.index = k => r.id \notin reported]_vars

\* C12 witness: of two jobs handed out, one was reported done and one was in
\* flight at the stop; after the resume the latter was handed out again
C12_Witness ==
    /\ resumes = 1
    /\ Cardinality(reported) = 1
    /\ recovered # {}
    /\ recovered \subseteq delivered
    /\ \A r \in queue_rows : r.index \in recovered /\ r.status = 1

\* What a step of put_many leaves unchanged, whatever the jobs
PutFrame ==
    UNCHANGED <<closed, resumes, tasks, clock, handouts, reported, locks,
                throttle_rows, parallelism_rows>>

\* C13: a put_many of storable jobs on an open queue, also after a resume,
\* inserts its rows (it does not fail on the index of a row still in the
\* queue, nor on the counter), with indexes greater than the index of every
\* row in the queue
C13_IndexesIncrease ==
    [][(PutFrame /\ ~closed) =>
          \A t \in Owner : \A n \in 1..MaxBatch : \A jobs \in NewJobs(n) :
             put_many(t, jobs) =>
                /\ raised' = NULL
                /\ Cardinality(queue_rows' \ queue_rows) = Len(jobs)
                /\ \A r \in queue_rows' \ queue_rows :
                      \A o \in queue_rows : o.index < r.index]_vars

\* C14: qsize() is the number of jobs put minus the number of jobs get_nowait
\* returned, in every state of one instance; so the steps that put nothing and
\* hand out nothing (task_done, clear, cleanup) do not change it
C14_QsizeIsPutMinusReturned ==
    qsize = Len(put_log) - handouts

\* C14 witness: of two jobs put, one was handed out and reported done, and the
\* thresholds were cleared; one job is pending
C14_Witness ==
    /\ Len(put_log) = 2
    /\ handouts = 1
    /\ Cardinality(reported) = 1
    /\ throttle # 0
    /\ throttle_rows = {}
    /\ qsize = 1

\* C15: when put_many commits, the rows it inserted have contiguous ascending
\* indexes in the order of its jobs argument, none of them an index already in
\* the queue, whatever the other producer threads do meanwhile; and the value
\* it returns is the number of rows inserted
C15_ContiguousIndexes ==
    [][\A t \in Threads :
          (pc[t] = "put_loop" /\ pc'[t] = "put_notify") =>
             LET new == queue_rows' \ queue_rows
                 n == Len(put_jobs[t])
             IN
             /\ Cardinality(new) = n
             /\ returned' = {n}
             /\ \E base \in {r.index : r \in new} :
                   \A i \in 1..n :
                      \E r \in new : /\ r.index = base + i - 1
                                     /\ r.id = put_jobs[t][i].id
                                     /\ \A o \in queue_rows : o.index < r.index]_vars

\* C15 witness: two producers have each committed a batch and neither has
\* returned yet
C15_Witness ==
    /\ \A t \in Threads : pc[t] = "put_notify"
    /\ Cardinality(queue_rows) = 2
    /\ resumes = 0

\* C16: the call of put_many leaves the rows that existed before it unchanged
\* and inserts every row of its batch or none: none when it raises; and the
\* queue table does not change while a call is inside its loop
C16_PutManyAllOrNothing ==
    [][/\ \A t \in Threads :
             (pc[t] = "put_loop" /\ pc'[t] # "put_loop") =>
                LET new == queue_rows' \ queue_rows IN
                /\ queue_rows \subseteq queue_rows'
                /\ Cardinality(new) \in {0, Len(put_jobs[t])}
                /\ raised' # NULL => new = {}
                /\ raised' = NULL => Cardinality(new) = Len(put_jobs[t])
       /\ (~init_resuming /\ queue_rows' # queue_rows) =>
             \E t \in Threads : pc[t] = "put_loop" /\ pc'[t] = "put_notify"]_vars

\* C16 witness: with one row in the queue, a batch of two failed on its second
\* row; the row is still there, alone
C16_Witness ==
    /\ raised = "IntegrityError"
    /\ resumes = 0
    /\ counter = 3
    /\ Len(put_log) = 1
    /\ Cardinality(queue_rows) = 1

\* C17: clear() empties the parallelism and throttle tables and leaves the
\* queue table, the counter and the in-flight map as they were
C17_ClearFrame ==
    [][\A t \in Threads :
          clear(t) =>
             /\ parallelism_rows' = {}
             /\ throttle_rows' = {}
             /\ UNCHANGED <<queue_rows, counter, tasks>>]_vars

\* C17 witness: a job of group x is in flight, a job was reported done under
\* a throttle, and both tables are empty
C17_Witness ==
    /\ throttle # 0
    /\ reported # {}
    /\ \E r \in queue_rows : r.status = 1 /\ r.group = "x"
    /\ parallelism_rows = {}
    /\ throttle_rows = {}

\* The parallelism count of every group is its number of status=1 rows (no
\* row counting as 0), and worked_groups() maps exactly the groups with a
\* status=1 row to that number
C19_CountsMatch ==
    LET n(g) == Cardinality({r \in queue_rows : r.status = 1 /\ r.group = g})
    IN /\ \A g \in Groups :
             /\ \A p \in parallelism_rows : p.group = g => p.count = n(g)
             /\ n(g) > 0 => \E p \in parallelism_rows : p.group = g
       /\ worked_groups = [g \in {h \in Groups : n(h) > 0} |-> n(g)]

\* C19: every step of put, get_nowait and task_done (every step but clear)
\* taken where the counts match leads to a state where they match
C19_ParallelismCountsInFlight ==
    [][(C19_CountsMatch /\ ~\E t \in Threads : clear(t)) => C19_CountsMatch']_vars

\* C20: the in-flight map and the status=1 rows correspond one to one: every
\* status=1 row has its index in the map under its job, and every entry of the
\* map is the index of a status=1 row
C20_TasksMatchInFlightRows ==
    /\ \A r \in queue_rows :
          r.status = 1 =>
             (JobKey(RowJob(r)) \in DOMAIN tasks
                 /\ tasks[JobKey(RowJob(r))] = r.index)
    /\ \A k \in DOMAIN tasks :
          \E r \in queue_rows : r.index = tasks[k] /\ r.status = 1

C21_InlineCleanupEveryInterval ==
    [][\A t \in Threads :
          (pc[t] = "idle" /\ pc'[t] = "task_done_notify") =>
             IF current_task_done_count + 1 >= cleanup_interval
             THEN /\ current_task_done_count' = 0
                  /\ \A p \in parallelism_rows' : ~(p.count < 1)
                  /\ \A r \in throttle_rows' : ~(r.timestamp < clock')
             ELSE current_task_done_count' = current_task_done_count + 1]_vars

\* The row get_nowait would select now, if there is one
Eligible == SQL_GET_JOB(now, group_parallelism)

\* C22: no wakeup is lost.  A consumer that decided to wait, or waits, while a
\* job is eligible (the job was committed after the consumer's check, the
\* notify may have come before the wait began) eventually is out of its call,
\* unless other consumers took the eligible jobs; and a consumer that checks
\* again while a job is eligible is handed a job
C22_NoLostWakeup ==
    /\ \A t \in Threads :
          (pc[t] \in {"need_to_wait", "waiting"} /\ Eligible # {})
             ~> (pc[t] = "idle" \/ Eligible = {})
    /\ [][\A t \in Threads :
             (pc[t] = "woken" /\ pc'[t] # "woken" /\ Eligible # {}) =>
                /\ pc'[t] = "idle"
                /\ raised' = NULL
                /\ NewlyDelivered # {}]_vars

\* C22 witness: a job of no group was committed and its producer has notified
\* and returned, and the consumer that had found nothing eligible is waiting
\* for a timeout that has not elapsed: the notify came before the wait began
C22_Witness ==
    \E t \in Threads :
       /\ pc[t] = "waiting"
       /\ clock < wait_deadline[t]
       /\ \A o \in Threads \ {t} : pc[o] = "idle"
       /\ \E r \in queue_rows : r.status = 0 /\ r.group = NULL

\* The positions of a thread inside a call of get_nowait
InGetNowait == {"get_count", "need_to_wait", "waiting", "woken"}

\* C23: under fair scheduling, with time advancing and every job being worked
\* eventually reported, a call of get_nowait made while a job is pending
\* eventually ends, and it ends by returning a job or, when other consumers
\* took all the work, by raising Empty
C23_GetNowaitTerminates ==
    /\ \A t \in Threads : (pc[t] \in InGetNowait) ~> (pc[t] = "idle")
    /\ [][\A t \in Threads :
             (pc[t] \in InGetNowait /\ pc'[t] = "idle") =>
                \/ raised' = NULL /\ NewlyDelivered # {}
                \/ raised' = "Empty" /\ Pending = {}]_vars

\* C24: a thread waiting on the condition inside get_nowait holds neither
\* task_lock (with it, the open transaction) nor put_lock; a thread comes to
\* wait only from the top of the loop of get_nowait; and while one thread
\* waits and the others are idle both locks are free, so that any operation
\* can begin
C24_WaiterHoldsNoLock ==
    /\ [](\A t \in Threads :
             pc[t] = "waiting" =>
                /\ task_lock # t
                /\ put_lock # t
                /\ (\A o \in Threads \ {t} : pc[o] = "idle") =>
                      (task_lock = NoThread /\ put_lock = NoThread))
    /\ [][\A t \in Threads :
             (pc'[t] = "waiting" /\ pc[t] # "waiting") =>
                pc[t] = "need_to_wait"]_vars

\* C24 witness: while a consumer waits for a timeout that has not elapsed, a
\* producer is inside its put_transaction
C24_Witness ==
    \E t, o \in Threads :
       /\ pc[t] = "waiting"
       /\ clock < wait_deadline[t]
       /\ pc[o] = "put_loop"
       /\ put_lock = o

\* The lock a thread inside a call is to acquire next
Wants(t) ==
    IF \E op \in GlobalOps : pc[t] = HoldingFirst(op)
    THEN GlobalLockOrder(CHOOSE op \in GlobalOps : pc[t] = HoldingFirst(op))[2]
    ELSE IF pc[t] = "woken" THEN "task_lock"
    ELSE "none"

\* Threads each of which is to acquire a lock held by one of them
Deadlock ==
    \E S \in SUBSET Threads \ {{}} :
       \A t \in S : Wants(t) # "none" /\ Holder(Wants(t)) \in S

\* C25: no state is a deadlock on put_lock and task_lock; a thread that has
\* taken the first lock of a global transaction holds put_lock and not
\* task_lock; no step acquires put_lock in a thread holding task_lock; and a
\* thread at a position where it takes the lock of the condition (to notify,
\* to wait, on waking up) holds neither
C25_NoDeadlock ==
    /\ [](~Deadlock)
    /\ [](\A t \in Threads :
             /\ (\E op \in GlobalOps : pc[t] = HoldingFirst(op)) =>
                   (put_lock = t /\ task_lock # t)
             /\ pc[t] \in {"put_notify", "task_done_notify", "need_to_wait",
                           "waiting", "woken"} =>
                   (put_lock # t /\ task_lock # t))
    /\ [][\A t \in Threads :
             (put_lock' = t /\ put_lock # t) => task_lock # t]_vars

\* C25 witness: a thread inside clear holds put_lock and is to take task_lock,
\* which a consumer inside its transaction holds
C25_Witness ==
    \E t, o \in Threads :
       /\ pc[t] = "clear_first"
       /\ put_lock = t
       /\ pc[o] = "get_count"
       /\ task_lock = o

\* The pending rows of jobs without group
PendingUngrouped == {r \in queue_rows : r.status = 0 /\ r.group = NULL}

\* C26: a status=0 row whose group is null passes the filter of SQL_GET_JOB in
\* every state, whatever the throttle and parallelism tables hold; a pass of
\* get_nowait that selects while such a row exists returns a job (it neither
\* goes on to wait nor raises Empty); and handing out a job without group
\* leaves the parallelism table as it was
C26_UngroupedAlwaysEligible ==
    /\ [](\A r \in PendingUngrouped : JobFilter(r, now, group_parallelism))
    /\ [][\A t \in Threads :
             ((get_nowait(t) \/ get_retry(t)) /\ PendingUngrouped # {}) =>
                /\ NewlyDelivered # {}
                /\ pc'[t] = "idle"
                /\ raised' = NULL]_vars
    /\ [][\A k \in NewlyDelivered :
             JobOf(k).group = NULL => UNCHANGED parallelism_rows]_vars

\* C26 witness: with group x at its cap of one job in flight, the job without
\* group put after it was handed out too, and the count of x is still 1
C26_Witness ==
    /\ group_parallelism = 1
    /\ Len(put_log) = 2
    /\ put_log[1].group = "x" /\ put_log[2].group = NULL
    /\ InFlight = {0, 1}
    /\ parallelism_rows = {[group |-> "x", count |-> 1]}

\* C27: with throttle > 0, a task_done of an in-flight job without group
\* succeeds: it raises nothing, deletes the row of the job and leaves the
\* parallelism and throttle tables as they were
C27_TaskDoneUngroupedSucceeds ==
    [][\A t \in Threads : \A k \in InFlight :
          (task_done(t, k) /\ throttle > 0 /\ JobOf(k).group = NULL) =>
             /\ raised' = NULL
             /\ queue_rows' = {r \in queue_rows : r.index # k}
             /\ UNCHANGED <<parallelism_rows, throttle_rows>>]_vars

\* C28: a step that creates or changes a throttle row is the transaction of a
\* task_done on a queue with throttle # 0, and the row it writes holds the
\* time of that step plus throttle; no step of put_many or get_nowait writes
\* one; and with throttle = 0 the throttle table is empty in every state
C28_ThrottleWrittenAtCompletion ==
    /\ [][\A r \in throttle_rows' \ throttle_rows :
             /\ throttle # 0
             /\ \E t \in Threads :
                   pc[t] = "idle" /\ pc'[t] = "task_done_notify"
             /\ r.timestamp = clock + throttle]_vars
    /\ [](throttle = 0 => throttle_rows = {})

\* C28 witness: a job of x was reported done under a throttle and, the delay
\* over, another one was handed out: the row of x still holds the time of the
\* completion plus throttle
C28_Witness ==
    /\ throttle # 0
    /\ Cardinality(reported) = 1
    /\ handouts = 2
    /\ \E t \in last_done["x"] :
          throttle_rows = {[group |-> "x", timestamp |-> t + throttle]}
    /\ pc = [t \in Threads |-> "idle"]

\* C29: the constructor of a crawl target validates spider as a string: with
\* a string url and a depth that is an int or omitted, a target with a string
\* spider is built, with the arguments as its attributes; and with a string
\* url and any depth, a spider that is neither None nor a string is rejected
\* with a TypeError
C29_SpiderValidatedAsString ==
    \A c \in crawl_target :
       isinstance(c.url, "str") =>
          /\ (isinstance(c.spider, "str")
                /\ (c.depth = PyNone \/ isinstance(c.depth, "int"))) =>
                /\ c.result.raised = NULL
                /\ c.result.self = {[url |-> c.url, depth |-> c.depth,
                                     spider |-> c.spider, data |-> c.data]}
          /\ (c.spider # PyNone /\ ~isinstance(c.spider, "str")) =>
                /\ c.result.raised # NULL
                /\ c.result.self = {}

\* C30: the count of every parallelism row is never negative, in every state
\* reached by get_nowait, task_done, clear and cleanup; stated here for the
\* states in which no job was reported by task_done more than once
C30_CountNeverNegative ==
    task_done_calls = Cardinality(reported) =>
       \A p \in parallelism_rows : p.count >= 0

\* C32: reopening with resume a store whose queue table is empty leaves a
\* usable queue: the counter is a valid integer (not None), and a put_many of
\* storable jobs made on the resumed queue while its table is still empty
\* raises nothing and inserts its rows as pending rows, which get_nowait can
\* select
C32_ResumeEmptyStoreUsable ==
    [][/\ (init_resuming /\ queue_rows = {}) => counter' \in Nat
       /\ (PutFrame /\ ~closed /\ resuming /\ queue_rows = {}) =>
             \A t \in Owner : \A n \in 1..MaxBatch : \A jobs \in NewJobs(n) :
                put_many(t, jobs) =>
                   /\ raised' = NULL
                   /\ Cardinality(queue_rows') = Len(jobs)
                   /\ \A r \in queue_rows' : r.status = 0]_vars

\* C31: a task_done of the job handed out for row k that raises nothing
\* deletes the row k and no other row, also when another row of the same job
\* id is in flight; and once task_done was called once for each job handed out
\* no status=1 row remains
C31_TaskDoneDeletesRowHandedOut ==
    /\ [][\A t \in Threads : \A k \in InFlight :
             (task_done(t, k) /\ raised' = NULL) =>
                queue_rows' = {r \in queue_rows : r.index # k}]_vars
    /\ []((reported = delivered /\ task_done_calls = Cardinality(delivered)) =>
             \A r \in queue_rows : r.status # 1)

====
